---- MODULE Spec2Model ----
(***************************************************************************)
(* A model of check_status.py: the file-backed FeedCache, the cache-aware  *)
(* fetch_feed, the Atom/RSS parsers and the incident classifier.           *)
(*                                                                         *)
(* Texts are sequences of characters, response bodies are sequences of     *)
(* bytes, a cache key (and a URL) is the sequence of its "/"-separated     *)
(* path segments, and the wall clock is the integer variable now.          *)
(***************************************************************************)
EXTENDS Integers, Sequences, FiniteSets, TLC

\* ------------------------------------------------------------------ bounds
MaxTime == 1        \* the clock runs 0..MaxTime
MaxAge == 1         \* max_age_seconds is 0 or MaxAge
MaxSize == 1        \* max_size_bytes is MaxSize - 1 or MaxSize
MaxBody == 1        \* a response body has at most MaxBody bytes
MaxDoc == 7         \* a feed text has at most MaxDoc markup tokens
MaxEntries == 1     \* max_entries is drawn from 0..MaxEntries
MaxHours == 1       \* hours is drawn from 0..MaxHours
MaxServices == 2    \* the configuration has at most MaxServices services
MaxIncidents == 2   \* format_incidents is given at most MaxIncidents incidents
MaxHtml == 6        \* an entry body has at most MaxHtml markup tokens and characters
MaxStores == 2      \* two callers make at most MaxStores store calls between them

\* ------------------------------------------------------- values and inputs
None == "None"                      \* Python None where a string is expected
NoFile == <<"no such file">>        \* a .xml path with no file behind it
NoMeta == [absent |-> TRUE]         \* a .json path with no file behind it
NoEntry == [absent |-> TRUE]        \* the None that get / get_if_fresh return

CR == "CR"
LF == "LF"
Chars == {"a", CR, LF}
\* The texts passed to store directly: every line ending, alone and after a letter.
Texts == {<<>>, <<"a">>, <<CR>>, <<LF>>, <<CR, LF>>, <<"a", LF>>}
Bytes == {97, 13, 255}

RECURSIVE SeqsUpTo(_, _)
SeqsUpTo(S, n) ==
    IF n = 0 THEN {<<>>}
    ELSE LET shorter == SeqsUpTo(S, n - 1)
         IN  shorter \cup {Append(s, x) : s \in shorter, x \in S}

Url == <<"https:", "", "example.com", "feed.atom">>   \* "https://example.com/feed.atom"
ServiceKey == <<"claude">>
OtherKey == <<"github">>
Keys == {ServiceKey, OtherKey, Url}
CacheKeyArgs == {<<None>>, <<"">>, ServiceKey}        \* cache_key: None, "" or a service key
Etags == {"", "v1"}                                   \* ETag header values
HeaderLengths == {"", "1", "2"}                       \* Content-Length header values
MaxAges == {0, MaxAge}
MaxSizes == {MaxSize - 1, MaxSize}

\* ---------------------------------------------------------- text file I/O
\* open(mode="w", newline=None): every "\n" is written as os.linesep.
Linesep == <<LF>>

RECURSIVE WriteText(_)
WriteText(s) ==
    IF s = <<>> THEN <<>>
    ELSE (IF Head(s) = LF THEN Linesep ELSE <<Head(s)>>) \o WriteText(Tail(s))

\* open(mode="r", newline=None): "\r\n" and a lone "\r" are read as "\n".
RECURSIVE ReadText(_)
ReadText(s) ==
    IF s = <<>> THEN <<>>
    ELSE IF Head(s) = CR
         THEN <<LF>> \o ReadText(IF Len(s) >= 2 /\ s[2] = LF
                                 THEN SubSeq(s, 3, Len(s))
                                 ELSE Tail(s))
         ELSE <<Head(s)>> \o ReadText(Tail(s))

\* bytes.decode("utf-8") on the modelled bytes: the ASCII bytes map to their
\* character, 0xFF is never valid UTF-8.
\* A byte from 1 on stands for the UTF-8 encoding of one markup token of a feed.
MarkupOf == <<"<x>", "</x>", "<entry>", "</entry>", "<title>t</title>">>
Chr(b) == CASE b = 97 -> "a" [] b = 13 -> CR [] b = 10 -> LF
            [] b \in 1..Len(MarkupOf) -> MarkupOf[b]
DecodeFails(bs) == \E i \in 1..Len(bs) : bs[i] > 127
Decode(bs) == [i \in 1..Len(bs) |-> Chr(bs[i])]

\* int(content_length) on the modelled header values.
IntOf(s) == CASE s = "0" -> 0 [] s = "1" -> 1 [] s = "2" -> 2 [] s = "3" -> 3
              [] s = "1048577" -> 1048577

\* Truthiness of an optional string: None and "" are falsy.
Truthy(s) == s # None /\ s # ""

VARIABLES
    now,            \* time.time()
    contentFiles,   \* key -> text of <cache_dir>/<key>.xml, or NoFile
    metaFiles,      \* key -> [etag, fetched_at] of <cache_dir>/<key>.json, or NoMeta
    pc,             \* "idle", or "awaiting" while fetch_feed is inside urlopen
    call,           \* the current (or last) call and what it did so far
    resp,           \* what urlopen produced for the current (or last) fetch_feed
    result          \* how the last call ended

vars == <<now, contentFiles, metaFiles, pc, call, resp, result>>

\* ------------------------------------------------------ call bookkeeping
NoCall == [op |-> "none"]
NoResp == [kind |-> "none", code |-> 0, length |-> None, body |-> <<>>, etag |-> None]
\* kind: "return" or the exception raised; via: the path of a return.
NoResult == [kind |-> "none", via |-> None, text |-> <<>>, code |-> 0,
             body_read |-> FALSE, bytes_read |-> 0]
Pending == [NoResult EXCEPT !.kind = "pending"]

\* ------------------------------------------------------------- FeedCache
\* <cache_dir>/<key>.<ext>: the segments of key before the last are directories.
PathDir(key) == SubSeq(key, 1, Len(key) - 1)
\* __init__ creates cache_dir itself and nothing below it.
DirExists(dir) == dir = <<>>
ContentExists(cf, key) == DirExists(PathDir(key)) /\ cf[key] # NoFile
MetaExists(mf, key) == DirExists(PathDir(key)) /\ mf[key] # NoMeta

Get(cf, mf, key) ==
    IF ~ContentExists(cf, key) \/ ~MetaExists(mf, key)
    THEN NoEntry
    ELSE [content |-> ReadText(cf[key]),
          etag |-> mf[key].etag,
          fetched_at |-> mf[key].fetched_at]

\* A staleness test that still counts an age of exactly max_age as fresh.
StaleMut(age, max_age_seconds) == age > max_age_seconds
Stale(age, max_age_seconds) == age >= max_age_seconds

GetIfFresh(cf, mf, t, key, max_age_seconds) ==
    LET cached == Get(cf, mf, key)
    IN  IF cached = NoEntry THEN NoEntry
        ELSE IF Stale(t - cached.fetched_at, max_age_seconds) THEN NoEntry
        ELSE cached

IsFresh(mf, t, key, max_age_seconds) ==
    IF ~MetaExists(mf, key) THEN FALSE
    ELSE (t - mf[key].fetched_at) < max_age_seconds

\* write_text raises FileNotFoundError when the parent directory is missing.
StoreRaises(key) == ~DirExists(PathDir(key))
\* A store that keeps one content file only and removes the others.
StoreContentMut(cf, key, content) ==
    [k \in DOMAIN cf |-> IF k = key THEN WriteText(content) ELSE NoFile]
StoreContent(cf, key, content) == [cf EXCEPT ![key] = WriteText(content)]
StoreMeta(mf, t, key, etag) == [mf EXCEPT ![key] = [etag |-> etag, fetched_at |-> t]]

\* cache.store(key, content, etag) called directly, as the tests do.
Store(key, content, etag) ==
    /\ pc = "idle"
    /\ call' = [op |-> "store", key |-> key, content |-> content, etag |-> etag]
    /\ IF StoreRaises(key)
       THEN /\ result' = [NoResult EXCEPT !.kind = "FileNotFoundError"]
            /\ UNCHANGED <<contentFiles, metaFiles>>
       ELSE /\ result' = [NoResult EXCEPT !.kind = "return"]
            /\ contentFiles' = StoreContent(contentFiles, key, content)
            /\ metaFiles' = StoreMeta(metaFiles, now, key, etag)
    /\ UNCHANGED <<now, pc, resp>>

\* ------------------------------------------------------------ fetch_feed
UserAgent == "status-page-checker/1.0"
Urls == {Url}
HttpErrorCodes == {304, 404}

\* What urlopen can produce: a response with headers and a body, an HTTPError
\* (urllib raises one for every status it does not handle, 304 included), or
\* another URLError (timeout, DNS, refused connection).
Responses ==
    [kind : {"ok"}, code : {200}, length : {None} \cup HeaderLengths,
     body : SeqsUpTo(Bytes, MaxBody), etag : {None} \cup Etags]
    \cup [kind : {"http_error"}, code : HttpErrorCodes, length : {None},
          body : {<<>>}, etag : {None}]
    \cup [kind : {"url_error"}, code : {0}, length : {None}, body : {<<>>}, etag : {None}]

\* key = cache_key or url
Falsy(cache_key) == cache_key = <<None>> \/ cache_key = <<"">>
ResolveKey(url, cache_key) == IF Falsy(cache_key) THEN url ELSE cache_key

\* A header made from whatever etag the entry holds, the empty one included.
CachedEtagMut(cf, mf, cache, key) ==
    LET cached == Get(cf, mf, key)
    IN  IF cache /\ cached # NoEntry THEN cached.etag ELSE None
\* The ETag that goes into If-None-Match (lines 280-285).
CachedEtag(cf, mf, cache, key) ==
    LET cached == Get(cf, mf, key)
    IN  IF cache /\ cached # NoEntry /\ Truthy(cached.etag) THEN cached.etag ELSE None

\* A size check that also rejects a feed of exactly the limit.
ExceedsLimitMut(n, max_size_bytes) == n >= max_size_bytes
ExceedsLimit(n, max_size_bytes) == n > max_size_bytes

\* response.read(max_size_bytes + 1)
ReadBody(body, max_size_bytes) ==
    SubSeq(body, 1, IF Len(body) < max_size_bytes + 1 THEN Len(body) ELSE max_size_bytes + 1)

\* A handler that serves the cache on every HTTP error status.
RecoversMut(code, cache, cached) == cache /\ cached # NoEntry
\* except HTTPError: the error is swallowed only in this case (lines 314-316).
Recovers(code, cache, cached) == code = 304 /\ cache /\ cached # NoEntry

\* A lookup that takes whatever entry there is, stale or not.
FreshHitMut(cf, mf, t, cache, key, max_age_seconds) ==
    IF cache THEN Get(cf, mf, key) ELSE NoEntry
\* Lines 271-274: the entry fetch_feed returns without going to the network.
FreshHit(cf, mf, t, cache, key, max_age_seconds) ==
    IF cache THEN GetIfFresh(cf, mf, t, key, max_age_seconds) ELSE NoEntry

\* Lines 268-287: up to the moment urlopen is entered.
FetchFeedCall(url, cache, cache_key, max_age_seconds, max_size_bytes) ==
    /\ pc = "idle"
    /\ LET key == ResolveKey(url, cache_key)
           fresh == FreshHit(contentFiles, metaFiles, now, cache, key, max_age_seconds)
           cached_etag == CachedEtag(contentFiles, metaFiles, cache, key)
           c == [op |-> "fetch_feed", url |-> url, cache |-> cache,
                 key |-> key,
                 max_age_seconds |-> max_age_seconds,
                 max_size_bytes |-> max_size_bytes]
       IN  IF fresh # NoEntry
           THEN /\ call' = c @@ [requests |-> 0, user_agent |-> None,
                                 if_none_match |-> None, cached_etag |-> None]
                /\ result' = [kind |-> "return", via |-> "fresh", text |-> fresh.content] @@ NoResult
                /\ pc' = "idle"
           ELSE /\ call' = c @@ [requests |-> 1, user_agent |-> UserAgent,
                                 if_none_match |-> cached_etag, cached_etag |-> cached_etag]
                /\ result' = Pending
                /\ pc' = "awaiting"
    /\ resp' = NoResp
    /\ UNCHANGED <<now, contentFiles, metaFiles>>

\* Lines 289-320: urlopen produced r for the call c; how fetch_feed ends and
\* what it leaves in the cache files cf, mf at time t.
FetchFeedResult(cf, mf, t, c, r) ==
    LET key == c.key
        cached == Get(cf, mf, key)
        content_bytes == ReadBody(r.body, c.max_size_bytes)
        read == [body_read |-> TRUE, bytes_read |-> Len(content_bytes)]
        untouched == [contentFiles |-> cf, metaFiles |-> mf]
    IN  CASE r.kind = "ok" ->
                IF Truthy(r.length) /\ ExceedsLimit(IntOf(r.length), c.max_size_bytes)
                THEN [result |-> [kind |-> "FeedTooLargeError", body_read |-> FALSE] @@ NoResult]
                     @@ untouched
                ELSE IF ExceedsLimit(Len(content_bytes), c.max_size_bytes)
                THEN [result |-> [kind |-> "FeedTooLargeError"] @@ read @@ NoResult]
                     @@ untouched
                ELSE IF DecodeFails(content_bytes)
                THEN [result |-> [kind |-> "UnicodeDecodeError"] @@ read @@ NoResult]
                     @@ untouched
                ELSE IF c.cache /\ StoreRaises(key)
                THEN [result |-> [kind |-> "FileNotFoundError"] @@ read @@ NoResult]
                     @@ untouched
                ELSE [result |-> [kind |-> "return", via |-> "full",
                                  text |-> Decode(content_bytes)] @@ read @@ NoResult,
                      contentFiles |-> IF c.cache
                                       THEN StoreContent(cf, key, Decode(content_bytes))
                                       ELSE cf,
                      metaFiles |-> IF c.cache THEN StoreMeta(mf, t, key, r.etag) ELSE mf]
          [] r.kind = "http_error" ->
                IF Recovers(r.code, c.cache, cached)
                THEN [result |-> [kind |-> "return", via |-> "304",
                                  text |-> cached.content] @@ NoResult,
                      contentFiles |-> StoreContent(cf, key, cached.content),
                      metaFiles |-> StoreMeta(mf, t, key, c.cached_etag)]
                ELSE [result |-> [kind |-> "HTTPError", code |-> r.code] @@ NoResult]
                     @@ untouched
          [] r.kind = "url_error" ->
                [result |-> [kind |-> "URLError"] @@ NoResult] @@ untouched

\* urlopen produced r; fetch_feed runs to its return or raise.
FetchFeedFinish(r) ==
    /\ pc = "awaiting"
    /\ pc' = "idle"
    /\ resp' = r
    /\ UNCHANGED <<now, call>>
    /\ LET end == FetchFeedResult(contentFiles, metaFiles, now, call, r)
       IN  /\ result' = end.result
           /\ contentFiles' = end.contentFiles
           /\ metaFiles' = end.metaFiles

\* The wall clock advances (also while fetch_feed waits for the network).
Tick ==
    /\ now < MaxTime
    /\ now' = now + 1
    /\ UNCHANGED <<contentFiles, metaFiles, pc, call, resp, result>>

Fetch ==
    \E url \in Urls, cache \in BOOLEAN, cache_key \in CacheKeyArgs,
       max_age_seconds \in MaxAges, max_size_bytes \in MaxSizes :
        FetchFeedCall(url, cache, cache_key, max_age_seconds, max_size_bytes)

Finish == \E r \in Responses : FetchFeedFinish(r)

Init ==
    /\ now = 0
    /\ contentFiles = [k \in Keys |-> NoFile]
    /\ metaFiles = [k \in Keys |-> NoMeta]
    /\ pc = "idle"
    /\ call = NoCall
    /\ resp = NoResp
    /\ result = NoResult

Next == Tick \/ Fetch \/ Finish

Spec == Init /\ [][Next]_vars

\* fetch_feed on a cache directory that an earlier run for another service
\* left an entry in: __init__ (mkdir with exist_ok) keeps what is there.
InitFrame ==
    /\ now = 0
    /\ contentFiles = [k \in Keys |-> IF k = OtherKey THEN WriteText(<<"a", LF>>) ELSE NoFile]
    /\ metaFiles = [k \in Keys |-> IF k = OtherKey
                                   THEN [etag |-> "v1", fetched_at |-> 0]
                                   ELSE NoMeta]
    /\ pc = "idle"
    /\ call = NoCall
    /\ resp = NoResp
    /\ result = NoResult

SpecFrame == InitFrame /\ [][Next]_vars

\* The cache used on its own: a sequential series of store calls while the
\* clock runs. get, get_if_fresh and is_fresh read the state and change nothing.
CacheStore ==
    \E key \in Keys, content \in Texts, etag \in {None} \cup Etags :
        Store(key, content, etag)

NextCache == Tick \/ CacheStore

SpecCache == Init /\ [][NextCache]_vars

\* Two callers sharing one cache directory. store is two file writes, the
\* content at line 97 and the metadata at lines 98-105, and takes no lock, so
\* another caller's writes can fall between them. pc, call: one per caller;
\* result: what has been passed to store so far.
Writers == {1, 2}
StoredTexts == {<<"a">>, <<CR>>, <<"a", LF>>}
NoHistory == [started |-> 0, overlapped |-> FALSE, passed |-> {}]

\* Line 97: content_path.write_text(content).
StoreWriteContent(w, key, content, etag) ==
    /\ pc[w] = "idle"
    /\ result.started < MaxStores
    /\ LET args == [op |-> "store", key |-> key, content |-> content, etag |-> etag]
       IN  /\ call' = [call EXCEPT ![w] = args @@ [fetched_at |-> -1]]
           /\ result' = [started |-> result.started + 1,
                         overlapped |-> \/ result.overlapped
                                        \/ \E o \in Writers : pc[o] # "idle",
                         passed |-> result.passed \cup {args}]
    /\ IF StoreRaises(key)
       THEN UNCHANGED <<pc, contentFiles>>
       ELSE /\ pc' = [pc EXCEPT ![w] = "content written"]
            /\ contentFiles' = StoreContent(contentFiles, key, content)
    /\ UNCHANGED <<now, metaFiles, resp>>

\* Lines 98-105: meta_path.write_text(json.dumps({etag, time.time()})).
StoreWriteMeta(w) ==
    /\ pc[w] = "content written"
    /\ metaFiles' = StoreMeta(metaFiles, now, call[w].key, call[w].etag)
    /\ call' = [call EXCEPT ![w].fetched_at = now]
    /\ pc' = [pc EXCEPT ![w] = "idle"]
    /\ UNCHANGED <<now, contentFiles, resp, result>>

WriteContent ==
    \E w \in Writers, key \in Keys, content \in StoredTexts, etag \in {None} \cup Etags :
        StoreWriteContent(w, key, content, etag)

WriteMeta == \E w \in Writers : StoreWriteMeta(w)

InitTorn ==
    /\ now = 0
    /\ contentFiles = [k \in Keys |-> NoFile]
    /\ metaFiles = [k \in Keys |-> NoMeta]
    /\ pc = [w \in Writers |-> "idle"]
    /\ call = [w \in Writers |-> NoCall]
    /\ resp = NoResp
    /\ result = NoHistory

NextTorn == Tick \/ WriteContent \/ WriteMeta

SpecTorn == InitTorn /\ [][NextTorn]_vars

\* ------------------------------------------------------------ the parsers
\* A feed text is a sequence of markup tokens. "<entry>" stands for the entry
\* element of the family being parsed ({Atom}entry for parse_atom_feed, item
\* for parse_rss_feed), "<title>t</title>" for its title element with text
\* "t", and "<x>" for any other element (feed, rss, channel, ...).
Tokens == {"<entry>", "</entry>", "<x>", "</x>", "<title>t</title>"}
\* The feed texts: every token sequence up to the given length.
Docs(n) == SeqsUpTo(Tokens, n)

IsOpen(tok) == tok \in {"<entry>", "<x>"}
IsClose(tok) == tok \in {"</entry>", "</x>"}
TagOf(tok) ==
    CASE tok \in {"<entry>", "</entry>"} -> "entry"
      [] tok \in {"<x>", "</x>"} -> "x"
      [] tok = "<title>t</title>" -> "title"

\* ET.fromstring: the elements in document order, each with the index of its
\* parent (0 for the root), or ParseError.
ParseError == <<[tag |-> "ParseError", parent |-> -1, text |-> ""]>>

\* A parser that takes the end of input as the end of the document.
EndOfInputMut(nodes, closed) == nodes
\* expat at the end of input: "no element found" unless the root was closed.
EndOfInput(nodes, closed) == IF closed THEN nodes ELSE ParseError

Top(stack) == IF stack = <<>> THEN 0 ELSE stack[Len(stack)]
Pop(stack) == SubSeq(stack, 1, Len(stack) - 1)

RECURSIVE Scan(_, _, _, _, _)
Scan(doc, i, stack, nodes, closed) ==
    IF i > Len(doc) THEN EndOfInput(nodes, closed)
    ELSE LET tok == doc[i]
         IN  IF IsClose(tok)
             THEN IF stack = <<>> \/ nodes[Top(stack)].tag # TagOf(tok)
                  THEN ParseError                       \* mismatched tag
                  ELSE Scan(doc, i + 1, Pop(stack), nodes, Len(stack) = 1)
             ELSE IF closed
             THEN ParseError                            \* junk after document element
             ELSE LET node == [tag |-> TagOf(tok), parent |-> Top(stack),
                               text |-> IF IsOpen(tok) THEN "" ELSE "t"]
                      grown == Append(nodes, node)
                  IN  IF IsOpen(tok)
                      THEN Scan(doc, i + 1, Append(stack, Len(grown)), grown, FALSE)
                      ELSE Scan(doc, i + 1, stack, grown, stack = <<>>)

FromString(doc) == Scan(doc, 1, <<>>, <<>>, FALSE)

RECURSIVE Ascending(_)
Ascending(S) ==
    IF S = {} THEN <<>>
    ELSE LET least == CHOOSE x \in S : \A y \in S : x <= y
         IN  <<least>> \o Ascending(S \ {least})

\* root.findall("atom:entry", ns): the entry children of the root.
FindAllAtom(nodes) ==
    Ascending({j \in 1..Len(nodes) : nodes[j].parent = 1 /\ nodes[j].tag = "entry"})
\* root.findall(".//item"): the item descendants of the root.
FindAllRss(nodes) ==
    Ascending({j \in 2..Len(nodes) : nodes[j].tag = "entry"})

\* entry.find(<title>): the first title child; its text, or "" without one.
TitleOf(nodes, e) ==
    LET kids == {j \in 1..Len(nodes) : nodes[j].parent = e /\ nodes[j].tag = "title"}
    IN  IF kids = {} THEN "" ELSE nodes[Ascending(kids)[1]].text

\* The modelled feeds have no link, date or content elements: their defaults.
MakeIncident(nodes, e) ==
    [title |-> TitleOf(nodes, e), link |-> "", published |-> "", status |-> "Unknown"]

\* A cap that lets one entry too many through.
CapReachedMut(n, max_entries) == n > max_entries
\* if len(incidents) >= max_entries: break
CapReached(n, max_entries) == n >= max_entries

RECURSIVE ParseLoop(_, _, _, _, _)
ParseLoop(nodes, found, k, incidents, max_entries) ==
    IF k > Len(found) THEN incidents
    ELSE IF CapReached(Len(incidents), max_entries) THEN incidents
    ELSE ParseLoop(nodes, found, k + 1,
                   Append(incidents, MakeIncident(nodes, found[k])), max_entries)

ParseFeed(family, content, max_entries) ==
    LET root == FromString(content)
    IN  IF root = ParseError
        THEN [NoResult EXCEPT !.kind = "FeedParseError"] @@ [incidents |-> <<>>]
        ELSE [NoResult EXCEPT !.kind = "return"] @@
             [incidents |->
                 ParseLoop(root,
                           IF family = "atom" THEN FindAllAtom(root) ELSE FindAllRss(root),
                           1, <<>>, max_entries)]

ParseAtomFeed ==
    /\ call.op \in {"parse", "parse_atom_feed", "parse_rss_feed"}
    /\ call' = [call EXCEPT !.op = "parse_atom_feed"]
    /\ result' = ParseFeed("atom", call.content, call.max_entries)
    /\ UNCHANGED <<now, contentFiles, metaFiles, pc, resp>>

ParseRssFeed ==
    /\ call.op \in {"parse", "parse_atom_feed", "parse_rss_feed"}
    /\ call' = [call EXCEPT !.op = "parse_rss_feed"]
    /\ result' = ParseFeed("rss", call.content, call.max_entries)
    /\ UNCHANGED <<now, contentFiles, metaFiles, pc, resp>>

\* A feed text and a max_entries, then the parsers applied to them.
InitParse ==
    /\ now = 0
    /\ contentFiles = [k \in Keys |-> NoFile]
    /\ metaFiles = [k \in Keys |-> NoMeta]
    /\ pc = "idle"
    /\ call \in [op : {"parse"}, content : Docs(MaxDoc), max_entries : 0..MaxEntries]
    /\ resp = NoResp
    /\ result = NoResult

NextParse == ParseAtomFeed \/ ParseRssFeed

SpecParse == InitParse /\ [][NextParse]_vars

\* -------------------------------------------------------- the classifier
SecondsPerHour == 3600
\* datetime.now(timezone.utc) in the classifier runs, in seconds.
NowUtc == (MaxHours + 2) * SecondsPerHour

\* A timestamp text: its format, the wall-clock time it spells (in seconds)
\* and the zone it names. ISO 8601: "Z", "+01:00" or no suffix; RFC 822:
\* "GMT", "+0100", or "-0000", which names no zone.
WallTimes ==
    {NowUtc - k * SecondsPerHour + d : k \in 0..(MaxHours + 1), d \in {-1, 0, 1}}
Timestamps ==
    [form : {"empty", "garbage"}, wall : {0}, zone : {""}]
    \cup [form : {"iso"}, wall : WallTimes, zone : {"Z", "+01:00", ""}]
    \cup [form : {"rfc822"}, wall : WallTimes, zone : {"GMT", "+0100", "-0000"}]

\* Status texts are sequences of characters.
UpperCase == <<"A","B","C","D","E","F","G","H","I","J","K","L","M",
               "N","O","P","Q","R","S","T","U","V","W","X","Y","Z">>
LowerCase == <<"a","b","c","d","e","f","g","h","i","j","k","l","m",
               "n","o","p","q","r","s","t","u","v","w","x","y","z">>
Lower(c) ==
    IF \E i \in 1..Len(UpperCase) : UpperCase[i] = c
    THEN LowerCase[CHOOSE i \in 1..Len(UpperCase) : UpperCase[i] = c]
    ELSE c
\* A lowering that leaves the text as it is.
StrLowerMut(s) == s
\* str.lower()
StrLower(s) == [i \in 1..Len(s) |-> Lower(s[i])]
\* pattern in status: pattern is a substring of status.
In(pattern, status) ==
    \E i \in 0..(Len(status) - Len(pattern)) :
        SubSeq(status, i + 1, i + Len(pattern)) = pattern

RESOLVED_PATTERNS ==
    <<<<"r", "e", "s", "o", "l", "v", "e", "d">>,
      <<"f", "i", "x", "e", "d">>,
      <<"c", "l", "o", "s", "e", "d">>,
      <<"c", "o", "m", "p", "l", "e", "t", "e", "d">>,
      <<"r", "e", "c", "o", "v", "e", "r", "e", "d">>,
      <<"r", "e", "s", "t", "o", "r", "e", "d">>,
      <<"b", "a", "c", "k", " ", "t", "o", " ", "n", "o", "r", "m", "a", "l">>,
      <<"f", "u", "l", "l", "y", " ", "o", "p", "e", "r", "a", "t", "i", "o", "n", "a", "l">>>>

\* The status texts the classifier is tried on.
Statuses ==
    {<<"R", "e", "s", "o", "l", "v", "e", "d">>,
     <<"R", "E", "S", "O", "L", "V", "E", "D">>,
     <<"r", "e", "s", "o", "l", "v", "e", "d">>,
     <<"B", "a", "c", "k", " ", "t", "o", " ", "n", "o", "r", "m", "a", "l">>,
     <<"I", "n", "v", "e", "s", "t", "i", "g", "a", "t", "i", "n", "g">>,
     <<"I", "d", "e", "n", "t", "i", "f", "i", "e", "d">>,
     <<"M", "o", "n", "i", "t", "o", "r", "i", "n", "g">>,
     <<"U", "n", "k", "n", "o", "w", "n">>,
     <<"F", "i", "x", "e", "d">>,
     <<"F", "i", "x">>,
     <<"U", "n", "r", "e", "s", "o", "l", "v", "e", "d">>,
     <<"S", "e", "r", "v", "i", "c", "e", " ", "r", "e", "s", "t", "o", "r", "e", "d">>,
     <<>>}

IsLikelyResolved(incident) ==
    LET status == StrLower(incident.status)
    IN  \E k \in 1..Len(RESOLVED_PATTERNS) : In(RESOLVED_PATTERNS[k], status)

NoDatetime == [none |-> TRUE]
Naive(wall) == [wall |-> wall, aware |-> FALSE, utcoffset |-> 0]
Aware(wall, utcoffset) == [wall |-> wall, aware |-> TRUE, utcoffset |-> utcoffset]

\* datetime.fromisoformat after the "Z" suffix was rewritten to "+00:00":
\* a datetime, aware only if the text has an offset; ValueError otherwise.
FromIsoFormat(ts) ==
    IF ts.form # "iso" THEN NoDatetime
    ELSE CASE ts.zone = "Z" -> Aware(ts.wall, 0)
           [] ts.zone = "+01:00" -> Aware(ts.wall, SecondsPerHour)
           [] ts.zone = "" -> Naive(ts.wall)

\* email.utils.parsedate_to_datetime: "-0000" yields a naive datetime.
ParseDateToDatetime(ts) ==
    IF ts.form # "rfc822" THEN NoDatetime
    ELSE CASE ts.zone = "GMT" -> Aware(ts.wall, 0)
           [] ts.zone = "+0100" -> Aware(ts.wall, SecondsPerHour)
           [] ts.zone = "-0000" -> Naive(ts.wall)

ParseTimestamp(ts) ==
    IF ts.form = "empty" THEN NoDatetime
    ELSE IF FromIsoFormat(ts) # NoDatetime THEN FromIsoFormat(ts)
    ELSE ParseDateToDatetime(ts)

\* age.total_seconds() < (hours * 3600)
WithinHours(age, hours) == age < hours * SecondsPerHour

\* now - parsed raises TypeError when parsed is naive.
IsRecentIncident(incident, hours, t) ==
    LET parsed == ParseTimestamp(incident.published)
    IN  IF parsed = NoDatetime
        THEN [NoResult EXCEPT !.kind = "return"] @@ [value |-> FALSE]
        ELSE IF ~parsed.aware
        THEN [NoResult EXCEPT !.kind = "TypeError"] @@ [value |-> FALSE]
        ELSE [NoResult EXCEPT !.kind = "return"] @@
             [value |-> WithinHours(t - (parsed.wall - parsed.utcoffset), hours)]

IsRecent ==
    /\ call.op \in {"incident", "is_recent_incident"}
    /\ call' = [call EXCEPT !.op = "is_recent_incident"]
    /\ result' = IsRecentIncident(call.incident, call.hours, now)
    /\ UNCHANGED <<now, contentFiles, metaFiles, pc, resp>>

\* A test that calls a recent incident active when it is resolved.
ActiveTestMut(recent, resolved) == recent /\ resolved
\* is_recent_incident(...) and not is_likely_resolved(...)
ActiveTest(recent, resolved) == recent /\ ~resolved

\* The TypeError of is_recent_incident passes through; is_likely_resolved is
\* only evaluated when is_recent_incident returned True.
IsLikelyActive(incident, recent_hours, t) ==
    LET recent == IsRecentIncident(incident, recent_hours, t)
    IN  IF recent.kind # "return" THEN recent
        ELSE [recent EXCEPT !.value = ActiveTest(recent.value, IsLikelyResolved(incident))]

IsResolved ==
    /\ call.op \in {"incident", "is_likely_resolved"}
    /\ call' = [call EXCEPT !.op = "is_likely_resolved"]
    /\ result' = [NoResult EXCEPT !.kind = "return"] @@
                 [value |-> IsLikelyResolved(call.incident)]
    /\ UNCHANGED <<now, contentFiles, metaFiles, pc, resp>>

IsActive ==
    /\ call.op \in {"incident", "is_likely_active"}
    /\ call' = [call EXCEPT !.op = "is_likely_active"]
    /\ result' = IsLikelyActive(call.incident, call.hours, now)
    /\ UNCHANGED <<now, contentFiles, metaFiles, pc, resp>>

\* An incident and an hours value, then the classifier applied to them.
InitRecent ==
    /\ now = NowUtc
    /\ contentFiles = [k \in Keys |-> NoFile]
    /\ metaFiles = [k \in Keys |-> NoMeta]
    /\ pc = "idle"
    /\ call \in [op : {"incident"},
                 incident : [title : {"t"}, link : {""}, status : Statuses,
                             published : Timestamps],
                 hours : 0..MaxHours]
    /\ resp = NoResp
    /\ result = NoResult

NextRecent == IsRecent \/ IsResolved \/ IsActive

SpecRecent == InitRecent /\ [][NextRecent]_vars

\* ------------------------------------------------- the HTML status extractor
\* An entry body is a sequence of the tags <strong> and </strong>, the word
\* characters "a" and "b" (what \w matches) and the space (what it does not).
StrongOpen == "<strong>"
StrongClose == "</strong>"
HtmlTokens == {StrongOpen, StrongClose, "a", "b", " "}
HtmlBodies(n) == SeqsUpTo(HtmlTokens, n)
Unknown == <<"U", "n", "k", "n", "o", "w", "n">>

\* \w
IsWordChar(c) == c \in {"a", "b"}

\* <strong>(\w+)</strong> matches at i and ends at j.
MatchesAt(html, i, j) ==
    /\ html[i] = StrongOpen
    /\ j >= i + 2
    /\ html[j] = StrongClose
    /\ \A k \in (i + 1)..(j - 1) : IsWordChar(html[k])

\* re.search: the leftmost match, group(1) of it; "Unknown" without a match.
ExtractStatusFromHtml(html_content) ==
    LET starts == {i \in 1..Len(html_content) :
                       \E j \in 1..Len(html_content) : MatchesAt(html_content, i, j)}
    IN  IF starts = {} THEN Unknown
        ELSE LET i == CHOOSE x \in starts : \A y \in starts : x <= y
                 j == CHOOSE x \in 1..Len(html_content) : MatchesAt(html_content, i, x)
             IN  SubSeq(html_content, i + 1, j - 1)

ExtractStatus ==
    /\ call.op \in {"html", "extract_status_from_html"}
    /\ call' = [call EXCEPT !.op = "extract_status_from_html"]
    /\ result' = [NoResult EXCEPT !.kind = "return",
                                  !.text = ExtractStatusFromHtml(call.html_content)]
    /\ UNCHANGED <<now, contentFiles, metaFiles, pc, resp>>

\* An entry body, then the extractor applied to it.
InitExtract ==
    /\ now = 0
    /\ contentFiles = [k \in Keys |-> NoFile]
    /\ metaFiles = [k \in Keys |-> NoMeta]
    /\ pc = "idle"
    /\ call \in [op : {"html"}, html_content : HtmlBodies(MaxHtml)]
    /\ resp = NoResp
    /\ result = NoResult

NextExtract == ExtractStatus

SpecExtract == InitExtract /\ [][NextExtract]_vars

\* ---------------------------------------------------------- the formatter
DefaultRecentHours == 4
DefaultLimit == 5
\* datetime.now(timezone.utc) in the formatter runs, in seconds.
NowFormat == (DefaultRecentHours + 1) * SecondsPerHour

\* The published texts of the incidents given to the formatter: none, no
\* date, a minute ago and five hours ago in UTC, five hours ago at +01:00,
\* and a date that names no zone.
FormatTimestamps ==
    {[form |-> "empty", wall |-> 0, zone |-> ""],
     [form |-> "garbage", wall |-> 0, zone |-> ""],
     [form |-> "iso", wall |-> NowFormat - 60, zone |-> "Z"],
     [form |-> "iso", wall |-> 0, zone |-> "Z"],
     [form |-> "iso", wall |-> SecondsPerHour, zone |-> "+01:00"],
     [form |-> "iso", wall |-> 0, zone |-> ""]}
FormatIncidentsIn ==
    [title : {"t"}, link : {"", "l"},
     status : {<<"I", "n", "v", "e", "s", "t", "i", "g", "a", "t", "i", "n", "g">>, <<"R", "e", "s", "o", "l", "v", "e", "d">>},
     published : FormatTimestamps]
\* The UTC offsets of the zone the program runs in (what astimezone() uses).
LocalOffsets == {0, SecondsPerHour}

\* The lines of the report.
TitleLine(service_name) == [kind |-> "# Status", name |-> service_name]
BlankLine == [kind |-> ""]
TextLine(text) == [kind |-> text]
ActiveLine(incident) ==
    [kind |-> ">>> [status] title", status |-> incident.status, title |-> incident.title]
ActiveLinkLine(incident) == [kind |-> "    link", link |-> incident.link]
HistoryLine(incident) ==
    [kind |-> "- [status] title", status |-> incident.status, title |-> incident.title]
HistoryLinkLine(incident) == [kind |-> "  link", link |-> incident.link]

\* strftime prints the datetime's own wall clock, whatever its offset;
\* astimezone() moves it to the local zone first.
LastIncidentLine(last_time, local_offset) ==
    [kind |-> "The last incident: utc_str (local_str)",
     utc_str |-> last_time.wall,
     local_str |-> IF last_time.aware
                   THEN last_time.wall - last_time.utcoffset + local_offset
                   ELSE last_time.wall]

RECURSIVE ActiveLines(_)
ActiveLines(active) ==
    IF active = <<>> THEN <<>>
    ELSE <<ActiveLine(Head(active))>>
         \o (IF Head(active).link # "" THEN <<ActiveLinkLine(Head(active))>> ELSE <<>>)
         \o ActiveLines(Tail(active))

RECURSIVE HistoryLines(_)
HistoryLines(incidents) ==
    IF incidents = <<>> THEN <<>>
    ELSE <<HistoryLine(Head(incidents))>>
         \o (IF Head(incidents).link # "" THEN <<HistoryLinkLine(Head(incidents))>> ELSE <<>>)
         \o HistoryLines(Tail(incidents))

\* [i for i in incidents if is_likely_active(i)], where every call returned.
RECURSIVE ActiveOf(_, _)
ActiveOf(incidents, t) ==
    IF incidents = <<>> THEN <<>>
    ELSE (IF IsLikelyActive(Head(incidents), DefaultRecentHours, t).value
          THEN <<Head(incidents)>> ELSE <<>>)
         \o ActiveOf(Tail(incidents), t)

FormatIncidents(service_name, incidents, limit, t, local_offset) ==
    LET head == <<TitleLine(service_name), BlankLine>>
        raised == {i \in 1..Len(incidents) :
                       IsLikelyActive(incidents[i], DefaultRecentHours, t).kind # "return"}
        active == ActiveOf(incidents, t)
        last_time == ParseTimestamp(incidents[1].published)
        shown == SubSeq(incidents, 1, IF Len(incidents) < limit THEN Len(incidents) ELSE limit)
    IN  IF incidents = <<>>
        THEN [NoResult EXCEPT !.kind = "return",
                              !.text = head \o <<TextLine("No recent incidents.")>>]
        ELSE IF raised # {}
        THEN [NoResult EXCEPT !.kind = "TypeError"]
        ELSE IF active # <<>>
        THEN [NoResult EXCEPT !.kind = "return",
                              !.text = head \o <<TextLine("## ACTIVE INCIDENTS"), BlankLine>>
                                       \o ActiveLines(active)
                                       \o <<BlankLine, TextLine("## Recent History"), BlankLine>>
                                       \o HistoryLines(shown)]
        ELSE [NoResult EXCEPT !.kind = "return",
                              !.text = head \o <<TextLine("No active incidents.")>>
                                       \o (IF last_time # NoDatetime
                                           THEN <<LastIncidentLine(last_time, local_offset)>>
                                           ELSE <<>>)
                                       \o <<BlankLine, TextLine("## Recent History"), BlankLine>>
                                       \o HistoryLines(shown)]

Format ==
    /\ call.op \in {"incidents", "format_incidents"}
    /\ call' = [call EXCEPT !.op = "format_incidents"]
    /\ result' = FormatIncidents(call.service_name, call.incidents, call.limit,
                                 now, call.local_offset)
    /\ UNCHANGED <<now, contentFiles, metaFiles, pc, resp>>

\* A list of incidents, then the formatter applied to it.
InitFormat ==
    /\ now = NowFormat
    /\ contentFiles = [k \in Keys |-> NoFile]
    /\ metaFiles = [k \in Keys |-> NoMeta]
    /\ pc = "idle"
    /\ call \in [op : {"incidents"}, service_name : {"Claude"},
                 incidents : SeqsUpTo(FormatIncidentsIn, MaxIncidents),
                 limit : {DefaultLimit}, local_offset : LocalOffsets]
    /\ resp = NoResp
    /\ result = NoResult

NextFormat == Format

SpecFormat == InitFormat /\ [][NextFormat]_vars

\* ------------------------------------------------------- the service lookup
\* Keys, aliases and queries are texts; the configuration is the dict of
\* services in iteration order, each with its key and its aliases.
Names == {<<"a">>, <<"A">>, <<"b">>, <<"B">>}
AliasLists == {<<>>} \cup {<<n>> : n \in Names}
RECURSIVE ServiceDicts(_)
ServiceDicts(n) ==
    IF n = 0 THEN {<<>>}
    ELSE LET shorter == ServiceDicts(n - 1)
         IN  shorter \cup
             {Append(d, [key |-> k, aliases |-> a]) :
                  d \in {x \in shorter : Len(x) = n - 1},
                  k \in Names, a \in AliasLists}
\* A dict holds a key once.
DistinctKeys(services) ==
    \A i, j \in 1..Len(services) : services[i].key = services[j].key => i = j
Elements(list) == {list[i] : i \in 1..Len(list)}

FindService(services, query) ==
    LET q == StrLower(query)
        direct == {i \in 1..Len(services) : services[i].key = q}
        aliased == {i \in 1..Len(services) : q \in Elements(services[i].aliases)}
        hit == IF direct # {} THEN CHOOSE i \in direct : TRUE
               ELSE CHOOSE i \in aliased : \A j \in aliased : i <= j
    IN  IF direct = {} /\ aliased = {}
        THEN [NoResult EXCEPT !.kind = "return"] @@ [found |-> FALSE, index |-> 0]
        ELSE [NoResult EXCEPT !.kind = "return", !.text = services[hit].key]
             @@ [found |-> TRUE, index |-> hit]

Find ==
    /\ call.op \in {"services", "find_service"}
    /\ call' = [call EXCEPT !.op = "find_service"]
    /\ result' = FindService(call.services, call.query)
    /\ UNCHANGED <<now, contentFiles, metaFiles, pc, resp>>

\* A configuration and a query, then the lookup applied to them.
InitFind ==
    /\ now = 0
    /\ contentFiles = [k \in Keys |-> NoFile]
    /\ metaFiles = [k \in Keys |-> NoMeta]
    /\ pc = "idle"
    /\ call \in [op : {"services"},
                 services : {d \in ServiceDicts(MaxServices) : DistinctKeys(d)},
                 query : Names]
    /\ resp = NoResp
    /\ result = NoResult

NextFind == Find

SpecFind == InitFind /\ [][NextFind]_vars

\* ---------------------------------------------------------------- main
DEFAULT_SERVICE == <<"c", "l", "a", "u", "d", "e">>
MAX_FEED_ENTRIES == 100
MAX_FEED_SIZE_BYTES == 1048576
MainMaxAge == 60

\* services.toml as the tests know it: two services, each with one alias.
MainServices ==
    <<[key |-> <<"c", "l", "a", "u", "d", "e">>, aliases |-> <<<<"a", "n", "t", "h", "r", "o", "p", "i", "c">>>>,
       name |-> "Claude", feed |-> Url, feed_type |-> "atom"],
      [key |-> <<"g", "i", "t", "h", "u", "b">>, aliases |-> <<<<"g", "h">>>>,
       name |-> "GitHub", feed |-> Url, feed_type |-> "rss"]>>
\* The cache key (a path below cache_dir) of a service key.
CacheKeyOf(service_key) ==
    CASE service_key = <<"c", "l", "a", "u", "d", "e">> -> ServiceKey
      [] service_key = <<"g", "i", "t", "h", "u", "b">> -> OtherKey

\* sys.argv: the program name, and at most one argument.
Argvs ==
    {<<"check_status.py">>,
     <<"check_status.py", <<"c", "l", "a", "u", "d", "e">>>>,
     <<"check_status.py", <<"G", "H">>>>,
     <<"check_status.py", <<"n", "o", "p", "e">>>>}

\* What urlopen can produce for main: an empty body, an empty feed, a feed
\* with one entry, a feed cut short and a body that is not UTF-8, each with or
\* without a Content-Length over the limit; or the errors.
MainBodies == {<<>>, <<1, 2>>, <<1, 3, 5, 4, 2>>, <<1, 3>>, <<255>>}
MainResponses ==
    [kind : {"ok"}, code : {200}, length : {None, "1048577"},
     body : MainBodies, etag : {None, "v1"}]
    \cup [kind : {"http_error"}, code : HttpErrorCodes, length : {None},
          body : {<<>>}, etag : {None}]
    \cup [kind : {"url_error"}, code : {0}, length : {None}, body : {<<>>}, etag : {None}]

\* An incident of the parser as the formatter reads it: the modelled feeds
\* carry no date and no content element.
AsIncident(incident) ==
    [title |-> incident.title, link |-> incident.link, status |-> Unknown,
     published |-> [form |-> "empty", wall |-> 0, zone |-> ""]]

SysExit(lines) == [NoResult EXCEPT !.kind = "SystemExit", !.code = 1, !.text = lines]

\* Lines 481-491: parse the feed text, print the report.
MainParseAndPrint(service, content, t, local_offset) ==
    LET parsed == ParseFeed(service.feed_type, content, MAX_FEED_ENTRIES)
        incidents == [i \in 1..Len(parsed.incidents) |-> AsIncident(parsed.incidents[i])]
        report == FormatIncidents(service.name, incidents, DefaultLimit, t, local_offset)
    IN  IF parsed.kind = "FeedParseError"
        THEN [result |-> SysExit(<<[kind |-> "Error parsing feed", name |-> service.name]>>),
              parse |-> "FeedParseError"]
        ELSE [result |-> report, parse |-> "return"]

\* Lines 448-476: up to the moment fetch_feed enters urlopen, or to the end
\* when the service is unknown or the cache holds a fresh entry.
MainCall(argv, local_offset) ==
    /\ pc = "idle"
    /\ resp' = NoResp
    /\ UNCHANGED <<now, contentFiles, metaFiles>>
    /\ LET query == IF Len(argv) >= 2 THEN argv[2] ELSE DEFAULT_SERVICE
           found == FindService(MainServices, query)
           c == [op |-> "main", argv |-> argv, query |-> query,
                 local_offset |-> local_offset]
       IN  IF ~found.found
           THEN /\ call' = c @@ [service |-> 0, requests |-> 0,
                                 fetch |-> None, parse |-> None]
                /\ result' = SysExit(<<[kind |-> "Unknown service", query |-> query],
                                       [kind |-> "Available services"]>>)
                /\ pc' = "idle"
           ELSE LET service == MainServices[found.index]
                    key == CacheKeyOf(service.key)
                    fresh == FreshHit(contentFiles, metaFiles, now, TRUE, key, MainMaxAge)
                    cached_etag == CachedEtag(contentFiles, metaFiles, TRUE, key)
                    f == c @@ [service |-> found.index, url |-> service.feed,
                               cache |-> TRUE, key |-> key,
                               max_age_seconds |-> MainMaxAge,
                               max_size_bytes |-> MAX_FEED_SIZE_BYTES]
                IN  IF fresh # NoEntry
                    THEN LET rest == MainParseAndPrint(service, fresh.content, now,
                                                       local_offset)
                         IN  /\ call' = f @@ [requests |-> 0, user_agent |-> None,
                                              if_none_match |-> None,
                                              cached_etag |-> None,
                                              fetch |-> "return", parse |-> rest.parse]
                             /\ result' = rest.result
                             /\ pc' = "idle"
                    ELSE /\ call' = f @@ [requests |-> 1, user_agent |-> UserAgent,
                                          if_none_match |-> cached_etag,
                                          cached_etag |-> cached_etag,
                                          fetch |-> None, parse |-> None]
                         /\ result' = Pending
                         /\ pc' = "awaiting"

\* Lines 473-491: urlopen produced r; main runs to its end.
MainFinish(r) ==
    /\ pc = "awaiting"
    /\ call.op = "main"
    /\ pc' = "idle"
    /\ resp' = r
    /\ now' = now
    /\ LET end == FetchFeedResult(contentFiles, metaFiles, now, call, r)
           service == MainServices[call.service]
           rest == MainParseAndPrint(service, end.result.text, now, call.local_offset)
       IN  /\ contentFiles' = end.contentFiles
           /\ metaFiles' = end.metaFiles
           /\ IF end.result.kind = "return"
              THEN /\ result' = rest.result
                   /\ call' = [call EXCEPT !.fetch = "return", !.parse = rest.parse]
              ELSE /\ call' = [call EXCEPT !.fetch = end.result.kind]
                   /\ result' =
                        IF end.result.kind \in {"HTTPError", "URLError"}
                        THEN SysExit(<<[kind |-> "Error fetching status",
                                        name |-> service.name]>>)
                        ELSE end.result

\* A minute passes between two runs of the program.
Later ==
    /\ pc = "idle"
    /\ now < MaxTime * MainMaxAge
    /\ now' = now + MainMaxAge
    /\ UNCHANGED <<contentFiles, metaFiles, pc, call, resp, result>>

Main == \E argv \in Argvs, local_offset \in LocalOffsets : MainCall(argv, local_offset)
MainEnd == \E r \in MainResponses : MainFinish(r)

NextMain == Later \/ Main \/ MainEnd

SpecMain == Init /\ [][NextMain]_vars

\* ------------------------------------------------------ steps of fetch_feed
\* A step that enters fetch_feed (Tick is the only other step taken when idle).
CallStep == pc = "idle" /\ now' = now
\* A step in which urlopen answers and fetch_feed returns or raises.
FinishStep == pc = "awaiting" /\ pc' = "idle"
\* fetch_feed has ended after going to the network.
Finished == pc = "idle" /\ call.op = "fetch_feed" /\ call.requests = 1

\* C1: fetch_feed issues a network request if and only if it has no fresh
\* cache entry: with a cache and an entry from get_if_fresh(key, max_age) it
\* returns that entry's content and issues no request; in every other case
\* (no cache, no entry, stale entry) it issues exactly one request, and the
\* rest of the call issues no further one.
C1_RequestIffNoFreshEntry ==
    [][/\ CallStep =>
            LET fresh == GetIfFresh(contentFiles, metaFiles, now, call'.key,
                                    call'.max_age_seconds)
            IN  IF call'.cache /\ fresh # NoEntry
                THEN /\ call'.requests = 0
                     /\ pc' = "idle"
                     /\ result'.kind = "return"
                     /\ result'.text = fresh.content
                ELSE /\ call'.requests = 1
                     /\ pc' = "awaiting"
       /\ FinishStep => call'.requests = 1]_vars

\* A fresh hit has happened: a cached text came back without a request.
C1_Witness ==
    /\ pc = "idle" /\ call.op = "fetch_feed"
    /\ call.requests = 0 /\ result.kind = "return" /\ result.via = "fresh"

\* The server answered with a body that fetch_feed accepts: no declared length
\* over the limit, a body within the limit, valid UTF-8.
AcceptableAnswer(r, max_size_bytes) ==
    /\ r.kind = "ok"
    /\ ~(r.length \notin {None, ""} /\ IntOf(r.length) > max_size_bytes)
    /\ Len(r.body) <= max_size_bytes
    /\ ~DecodeFails(r.body)

\* C2: when the server answers with a body within the size limit, fetch_feed
\* returns the decoded body and, with a cache, the entry under the key then
\* holds exactly that content, the response's ETag (None when it has none)
\* and fetched_at = now.
C2_FullResponseStored ==
    [][(FinishStep /\ AcceptableAnswer(resp', call.max_size_bytes)) =>
            /\ result'.kind = "return"
            /\ result'.text = Decode(resp'.body)
            /\ call.cache =>
                    Get(contentFiles', metaFiles', call.key) =
                        [content |-> Decode(resp'.body),
                         etag |-> resp'.etag,
                         fetched_at |-> now']]_vars

\* C3: on a 304 with a cache entry for the key, fetch_feed returns the cached
\* content and re-stores the entry with content and etag unchanged and
\* fetched_at = now; a following fetch of that key before max_age has elapsed
\* since then issues no request.
C3_NotModifiedRestores ==
    [][/\ (/\ FinishStep
           /\ resp'.kind = "http_error" /\ resp'.code = 304
           /\ call.cache
           /\ Get(contentFiles, metaFiles, call.key) # NoEntry) =>
                LET old == Get(contentFiles, metaFiles, call.key)
                IN  /\ result'.kind = "return"
                    /\ result'.text = old.content
                    /\ Get(contentFiles', metaFiles', call.key) =
                           [old EXCEPT !.fetched_at = now']
       /\ (/\ CallStep
           /\ call.op = "fetch_feed" /\ result.kind = "return" /\ result.via = "304"
           /\ call'.cache /\ call'.key = call.key
           /\ now - Get(contentFiles, metaFiles, call.key).fetched_at
                  < call'.max_age_seconds) =>
                /\ call'.requests = 0
                /\ result'.text = result.text]_vars

\* C4: fetch_feed raises FeedTooLargeError if and only if the declared
\* Content-Length exceeds max_size (and then the body is never read) or the
\* bytes read exceed max_size; a body of exactly max_size bytes is accepted;
\* a returned text is never that of an oversized body.
C4_TooLargeIff ==
    /\ result.kind = "FeedTooLargeError" => Finished /\ resp.kind = "ok"
    /\ (Finished /\ resp.kind = "ok") =>
            LET max == call.max_size_bytes
                declared == resp.length \notin {None, ""} /\ IntOf(resp.length) > max
                measured == result.body_read /\ result.bytes_read > max
            IN  /\ result.kind = "FeedTooLargeError" <=> (declared \/ measured)
                /\ declared => ~result.body_read
                /\ result.body_read =>
                        /\ result.bytes_read <= max + 1
                        /\ result.bytes_read > max <=> Len(resp.body) > max
                /\ (~declared /\ Len(resp.body) = max) => result.kind # "FeedTooLargeError"
                /\ result.kind = "return" =>
                        /\ Len(resp.body) <= max
                        /\ result.text = Decode(resp.body)

\* A body longer than the limit was caught by the capped read although the
\* headers did not announce it.
C4_Witness ==
    /\ Finished /\ resp.kind = "ok"
    /\ result.kind = "FeedTooLargeError" /\ result.body_read
    /\ Len(resp.body) > call.max_size_bytes

\* C5: a transport error is recovered if and only if it is HTTP 304 and a
\* cache entry exists for the key; every other transport error is raised
\* unchanged after the single request, with no cached content returned and
\* the cache left alone.
C5_RecoversOnly304WithEntry ==
    [][(FinishStep /\ resp'.kind \in {"http_error", "url_error"}) =>
            LET entry == /\ contentFiles[call.key] # NoFile
                         /\ metaFiles[call.key] # NoMeta
            IN  IF resp'.kind = "http_error" /\ resp'.code = 304 /\ call.cache /\ entry
                THEN result'.kind = "return" /\ result'.via = "304"
                ELSE /\ result'.kind = (IF resp'.kind = "http_error"
                                        THEN "HTTPError" ELSE "URLError")
                     /\ result'.code = resp'.code
                     /\ result'.text = <<>>
                     /\ call'.requests = 1
                     /\ UNCHANGED <<contentFiles, metaFiles>>]_vars

\* A 304 reached a call that has a cache but no entry for the key, and was raised.
C5_Witness ==
    /\ Finished /\ call.cache
    /\ resp.kind = "http_error" /\ resp.code = 304
    /\ result.kind = "HTTPError" /\ result.code = 304

\* -------------------------------------------------------------- the cache
FreshAge == 60
QueryAges == 0..(MaxAge + 1) \cup {FreshAge}
EntryExists(key) == contentFiles[key] # NoFile /\ metaFiles[key] # NoMeta
StoreStep == call'.op = "store" /\ now' = now
StoreReturned == call.op = "store" /\ result.kind = "return"

\* C6: get_if_fresh(key, max_age) returns the entry if and only if an entry
\* exists and now - fetched_at < max_age (an age equal to max_age is stale);
\* is_fresh applies the same rule and is false without an entry; right after
\* a store is_fresh(k, 0) is false and is_fresh(k, 60) is true.
C6_FreshnessHalfOpen ==
    /\ \A key \in Keys, max_age \in QueryAges :
            LET fresh == EntryExists(key) /\ now - metaFiles[key].fetched_at < max_age
                got == GetIfFresh(contentFiles, metaFiles, now, key, max_age)
            IN  /\ got # NoEntry <=> fresh
                /\ got # NoEntry => got = Get(contentFiles, metaFiles, key)
                /\ IsFresh(metaFiles, now, key, max_age) <=> fresh
    /\ (StoreReturned /\ metaFiles[call.key].fetched_at = now) =>
            /\ ~IsFresh(metaFiles, now, call.key, 0)
            /\ IsFresh(metaFiles, now, call.key, FreshAge)

\* An entry whose age is exactly max_age: stale for it, fresh for one more.
C6_Witness ==
    /\ StoreReturned /\ MaxAge > 0
    /\ now - metaFiles[call.key].fetched_at = MaxAge
    /\ GetIfFresh(contentFiles, metaFiles, now, call.key, MaxAge) = NoEntry
    /\ ~IsFresh(metaFiles, now, call.key, MaxAge)
    /\ GetIfFresh(contentFiles, metaFiles, now, call.key, MaxAge + 1) # NoEntry

\* C7: after any series of store calls get(k) returns exactly the content and
\* etag of the most recent store(k, c, e) (etag None if that call passed none)
\* and None for a key never stored; a store to one key does not change what
\* get returns for another.
C7_RoundTrip ==
    /\ \A key \in Keys : Get(contentFiles, metaFiles, key) = NoEntry
    /\ [][(StoreStep /\ result'.kind = "return") =>
            LET got == Get(contentFiles', metaFiles', call'.key)
            IN  /\ got # NoEntry
                /\ got.content = call'.content
                /\ got.etag = call'.etag
                /\ \A other \in Keys \ {call'.key} :
                        Get(contentFiles', metaFiles', other) =
                            Get(contentFiles, metaFiles, other)]_vars

\* ------------------------------------------------------------- the parsers
Parsed == call.op \in {"parse_atom_feed", "parse_rss_feed"}
Min(a, b) == IF a < b THEN a ELSE b

\* Well-formed markup, by the grammar: one element; an element is a title
\* element, or an open tag, a run of elements and the matching close tag.
RECURSIVE IsElement(_), IsForest(_)
IsElement(s) ==
    \/ s = <<"<title>t</title>">>
    \/ /\ Len(s) >= 2
       /\ IsOpen(s[1]) /\ IsClose(s[Len(s)]) /\ TagOf(s[1]) = TagOf(s[Len(s)])
       /\ IsForest(SubSeq(s, 2, Len(s) - 1))
IsForest(s) ==
    \/ s = <<>>
    \/ \E k \in 1..Len(s) : IsElement(SubSeq(s, 1, k)) /\ IsForest(SubSeq(s, k + 1, Len(s)))
WellFormed(doc) == IsElement(doc)

\* The entries of a well-formed feed, as positions in the text: the entry
\* tags opened directly under the root (Atom) or anywhere under it (RSS).
Depth(doc, i) ==
    Cardinality({j \in 1..(i - 1) : IsOpen(doc[j])})
        - Cardinality({j \in 1..(i - 1) : IsClose(doc[j])})
EntryPositions(op, doc) ==
    {i \in 1..Len(doc) :
        /\ doc[i] = "<entry>"
        /\ IF op = "parse_atom_feed" THEN Depth(doc, i) = 1 ELSE Depth(doc, i) >= 1}
\* The incidents of all entries, in document order.
AllIncidents(op, doc) ==
    LET nodes == FromString(doc)
        found == IF op = "parse_atom_feed" THEN FindAllAtom(nodes) ELSE FindAllRss(nodes)
    IN  [k \in 1..Len(found) |-> MakeIncident(nodes, found[k])]

IsDate(ts) == ts.form \in {"iso", "rfc822"}
ZoneOffset(ts) == IF ts.zone \in {"+01:00", "+0100"} THEN SecondsPerHour ELSE 0
Elapsed(ts) == now - (ts.wall - ZoneOffset(ts))

\* C10: is_recent_incident returns a boolean without failing: False when
\* published is empty or cannot be normalized, and otherwise True if and only
\* if the time since publication is strictly less than hours * 3600 seconds.
C10_RecentIffWithinHours ==
    call.op = "is_recent_incident" =>
        /\ result.kind = "return"
        /\ result.value \in BOOLEAN
        /\ ~IsDate(call.incident.published) => result.value = FALSE
        /\ IsDate(call.incident.published) =>
                (result.value <=>
                    Elapsed(call.incident.published) < call.hours * SecondsPerHour)

\* The vocabulary of resolved statuses, and containment ignoring letter case.
Vocabulary ==
    {<<"r", "e", "s", "o", "l", "v", "e", "d">>,
     <<"f", "i", "x", "e", "d">>,
     <<"c", "l", "o", "s", "e", "d">>,
     <<"c", "o", "m", "p", "l", "e", "t", "e", "d">>,
     <<"r", "e", "c", "o", "v", "e", "r", "e", "d">>,
     <<"r", "e", "s", "t", "o", "r", "e", "d">>,
     <<"b", "a", "c", "k", " ", "t", "o", " ", "n", "o", "r", "m", "a", "l">>,
     <<"f", "u", "l", "l", "y", " ", "o", "p", "e", "r", "a", "t", "i", "o", "n", "a", "l">>}
SameLetter(a, b) ==
    \/ a = b
    \/ \E i \in 1..Len(UpperCase) : {a, b} = {UpperCase[i], LowerCase[i]}
ContainsIgnoringCase(text, phrase) ==
    \E off \in 0..(Len(text) - Len(phrase)) :
        \A j \in 1..Len(phrase) : SameLetter(text[off + j], phrase[j])
SaysResolved(status) == \E phrase \in Vocabulary : ContainsIgnoringCase(status, phrase)

\* C11: is_likely_active(incident, recent_hours) is true if and only if
\* is_recent_incident(incident, recent_hours) is true and
\* is_likely_resolved(incident) is false: it is true exactly for an incident
\* whose published names an instant less than recent_hours * 3600 seconds ago
\* and whose status does not say resolved; an incident with an empty or
\* unparseable timestamp, an old unresolved one and a recent resolved one are
\* not active.
C11_ActiveIffRecentUnresolved ==
    call.op = "is_likely_active" =>
        LET incident == call.incident
            recent == IsRecentIncident(incident, call.hours, now)
            active == result.kind = "return" /\ result.value
        IN  /\ active <=> /\ recent.kind = "return" /\ recent.value
                          /\ ~IsLikelyResolved(incident)
            /\ active <=> /\ IsDate(incident.published)
                          /\ ParseTimestamp(incident.published).aware
                          /\ Elapsed(incident.published) < call.hours * SecondsPerHour
                          /\ ~SaysResolved(incident.status)
            /\ recent.kind = "return" => result.kind = "return"
            /\ ~IsDate(incident.published) => result.kind = "return" /\ ~result.value

\* is_likely_active returned True, and for the same timestamp a resolved
\* status is not active.
C11_Witness ==
    /\ call.op = "is_likely_active"
    /\ result.kind = "return" /\ result.value
    /\ call.hours > 0
    /\ Elapsed(call.incident.published) = call.hours * SecondsPerHour - 1
    /\ ~IsLikelyActive([call.incident EXCEPT !.status = <<"R", "e", "s", "o", "l", "v", "e", "d">>],
                       call.hours, now).value

\* C12: is_likely_resolved(incident) is true if and only if the status,
\* compared ignoring letter case, contains a phrase of the vocabulary
\* {resolved, fixed, closed, completed, recovered, restored, back to normal,
\* fully operational}; it is true for Resolved, RESOLVED, resolved and
\* Back to normal, and false for Investigating, Identified and Monitoring.
C12_ResolvedIffVocabulary ==
    call.op = "is_likely_resolved" =>
        /\ result.kind = "return"
        /\ result.value <=> SaysResolved(call.incident.status)
        /\ call.incident.status \in {<<"R", "e", "s", "o", "l", "v", "e", "d">>, <<"R", "E", "S", "O", "L", "V", "E", "D">>, <<"r", "e", "s", "o", "l", "v", "e", "d">>,
                                     <<"B", "a", "c", "k", " ", "t", "o", " ", "n", "o", "r", "m", "a", "l">>}
                => result.value
        /\ call.incident.status \in {<<"I", "n", "v", "e", "s", "t", "i", "g", "a", "t", "i", "n", "g">>,
                                     <<"I", "d", "e", "n", "t", "i", "f", "i", "e", "d">>,
                                     <<"M", "o", "n", "i", "t", "o", "r", "i", "n", "g">>}
                => ~result.value

\* A status in capitals was found to say resolved.
C12_Witness ==
    /\ call.op = "is_likely_resolved"
    /\ call.incident.status = <<"R", "E", "S", "O", "L", "V", "E", "D">>
    /\ result.kind = "return" /\ result.value

\* ------------------------------------------------- the HTML status extractor
\* A bold-emphasis run: <strong> at i, the next </strong> at j, text between.
IsRun(html, i, j) ==
    /\ i \in 1..Len(html) /\ j \in 1..Len(html)
    /\ html[i] = StrongOpen /\ html[j] = StrongClose
    /\ j > i + 1
    /\ \A k \in (i + 1)..(j - 1) : html[k] # StrongClose
Runs(html) == {r \in (1..Len(html)) \X (1..Len(html)) : IsRun(html, r[1], r[2])}
FirstRun(html) == CHOOSE r \in Runs(html) : \A q \in Runs(html) : r[1] <= q[1]

\* C13: extract_status_from_html returns the inner text of the first
\* <strong>...</strong> run of the body, ignoring every later run, and returns
\* "Unknown" exactly when the body is empty or has no such run.
C13_FirstBoldRun ==
    call.op = "extract_status_from_html" =>
        LET html == call.html_content
        IN  /\ Runs(html) # {} =>
                    result.text = SubSeq(html, FirstRun(html)[1] + 1, FirstRun(html)[2] - 1)
            /\ result.text = Unknown <=> Runs(html) = {}

\* ---------------------------------------------------------- the formatter
Formatted == call.op = "format_incidents"
Positions(lines, kind) == {i \in 1..Len(lines) : lines[i].kind = kind}
\* is_likely_active says True for the incident.
Active(incident) ==
    LET a == IsLikelyActive(incident, DefaultRecentHours, now)
    IN  a.kind = "return" /\ a.value
\* is_likely_active says False for every incident of the list.
NoneActive(incidents) ==
    \A i \in 1..Len(incidents) :
        LET a == IsLikelyActive(incidents[i], DefaultRecentHours, now)
        IN  a.kind = "return" /\ ~a.value

\* C14: format_incidents emits exactly one of three openings: for an empty
\* list only "No recent incidents." and nothing after it; for a non-empty
\* list the "ACTIVE INCIDENTS" block if and only if some incident is likely
\* active, listing every active incident, and otherwise "No active
\* incidents."; in both non-empty cases a "Recent History" heading follows.
C14_ThreeOpenings ==
    Formatted =>
        LET incidents == call.incidents
            lines == result.text
            none == Positions(lines, "No recent incidents.")
            block == Positions(lines, "## ACTIVE INCIDENTS")
            quiet == Positions(lines, "No active incidents.")
            history == Positions(lines, "## Recent History")
            some_active == \E i \in 1..Len(incidents) : Active(incidents[i])
        IN  /\ result.kind = "return"
            /\ Cardinality(none) + Cardinality(block) + Cardinality(quiet) = 1
            /\ incidents = <<>> =>
                    /\ none = {3} /\ Len(lines) = 3
                    /\ history = {}
            /\ incidents # <<>> =>
                    /\ none = {}
                    /\ block # {} <=> some_active
                    /\ \A i \in 1..Len(incidents) :
                            Active(incidents[i]) =>
                                \E n \in 1..Len(lines) : lines[n] = ActiveLine(incidents[i])
                    /\ \E h \in history : \A o \in block \cup quiet : o < h

\* C18: for a non-empty list in which no incident is active the output has,
\* after "No active incidents.", a line with the instant of the first
\* incident's timestamp as UTC time and as local time.
C18_LastIncidentRendered ==
    (/\ Formatted
     /\ call.incidents # <<>>
     /\ NoneActive(call.incidents)
     /\ IsDate(call.incidents[1].published)) =>
        LET lines == result.text
            ts == call.incidents[1].published
            instant == ts.wall - ZoneOffset(ts)
        IN  /\ result.kind = "return"
            /\ \E q \in Positions(lines, "No active incidents.") :
                    \E n \in (q + 1)..Len(lines) :
                        /\ lines[n].kind = "The last incident: utc_str (local_str)"
                        /\ lines[n].utc_str = instant
                        /\ lines[n].local_str = instant + call.local_offset

\* ------------------------------------------------------- the service lookup
SameText(s, t) == Len(s) = Len(t) /\ \A i \in 1..Len(s) : SameLetter(s[i], t[i])
KeyMatches(services, query) ==
    {i \in 1..Len(services) : SameText(query, services[i].key)}
AliasMatches(services, query) ==
    {i \in 1..Len(services) :
         \E a \in Elements(services[i].aliases) : SameText(query, a)}

\* C15: find_service looks up ignoring letter case: for every query equal,
\* ignoring case, to a service key or to an alias of a service it returns
\* that service's canonical key (a key match before any alias match,
\* otherwise the first service in iteration order), and it returns None only
\* when no key and no alias matches.
C15_CaseInsensitiveLookup ==
    call.op = "find_service" =>
        LET keyed == KeyMatches(call.services, call.query)
            aliased == AliasMatches(call.services, call.query)
        IN  /\ result.kind = "return"
            /\ ~result.found <=> (keyed = {} /\ aliased = {})
            /\ keyed # {} => result.found /\ result.index \in keyed
            /\ (keyed = {} /\ aliased # {}) =>
                    /\ result.found
                    /\ result.index \in aliased
                    /\ \A j \in aliased : result.index <= j
            /\ result.found => result.text = call.services[result.index].key

\* ---------------------------------------------------------------- main
MainEnded == call.op = "main" /\ pc = "idle"
UnknownService == call.service = 0
FetchFailed == call.fetch \notin {None, "return"}
ParseFailed == call.parse = "FeedParseError"

\* C16: a run of main ends with exit status 1 after printing a message
\* whenever the service is unknown or the fetch or the parse failed with any
\* error (transport failure, feed too large, malformed feed), and with exit
\* status 0 after printing the report in every other case.
C16_ExitStatus ==
    MainEnded =>
        IF UnknownService \/ FetchFailed \/ ParseFailed
        THEN /\ result.kind = "SystemExit" /\ result.code = 1
             /\ result.text # <<>>
        ELSE /\ result.kind = "return"
             /\ result.text # <<>>
             /\ result.text[1] = TitleLine(MainServices[call.service].name)

\* --------------------------------------------------- fetch_feed, continued
\* A step that enters fetch_feed and goes to the network.
RequestStep == CallStep /\ call'.op = "fetch_feed" /\ call'.requests = 1
\* A step in which fetch_feed returns a text.
ReturnStep ==
    /\ call'.op = "fetch_feed"
    /\ result'.kind = "return"
    /\ (CallStep /\ pc' = "idle") \/ FinishStep

\* C17 as stated: every request carries If-None-Match if and only if a cache
\* was supplied and the entry for the key exists (fresh or stale) and carries
\* an etag, the header value being that etag; User-Agent is always
\* status-page-checker/1.0.
C17_ConditionalHeader ==
    [][RequestStep =>
            LET entry == Get(contentFiles, metaFiles, call'.key)
                carries == call'.cache /\ entry # NoEntry /\ entry.etag # None
            IN  /\ call'.if_none_match # None <=> carries
                /\ carries => call'.if_none_match = entry.etag
                /\ call'.user_agent = "status-page-checker/1.0"]_vars

\* C17 amended: every request carries If-None-Match if and only if a cache
\* was supplied and the entry for the key exists (fresh or stale) and carries
\* a non-empty etag, the header value being that etag; User-Agent is always
\* status-page-checker/1.0.
C17_ConditionalHeaderNonEmpty ==
    [][RequestStep =>
            LET entry == Get(contentFiles, metaFiles, call'.key)
                carries == /\ call'.cache /\ entry # NoEntry
                           /\ entry.etag # None /\ entry.etag # ""
            IN  /\ call'.if_none_match # None <=> carries
                /\ carries => call'.if_none_match = entry.etag
                /\ call'.user_agent = "status-page-checker/1.0"]_vars

\* A request went out for a stale entry with its etag in If-None-Match.
C17_Witness ==
    /\ pc = "awaiting" /\ call.op = "fetch_feed" /\ call.requests = 1
    /\ call.cache
    /\ Get(contentFiles, metaFiles, call.key) # NoEntry
    /\ Get(contentFiles, metaFiles, call.key).etag = "v1"
    /\ call.if_none_match = "v1"
    /\ call.user_agent = "status-page-checker/1.0"

\* C20: whenever fetch_feed is called with a cache and returns a text t (by a
\* fresh hit, a full response or a recovered 304), the cache entry for the key
\* right afterwards exists and its content equals t.
C20_ReturnedTextIsCached ==
    [][(ReturnStep /\ call'.cache) =>
            LET entry == Get(contentFiles', metaFiles', call'.key)
            IN  /\ entry # NoEntry
                /\ entry.content = result'.text]_vars

\* ---------------------------------------------------- two callers of store
\* No store call began while another was between its two writes, and none is
\* between them now.
SequentialUse == ~result.overlapped /\ \A w \in Writers : pc[w] = "idle"

\* C19: store writes the content file and the metadata file as two steps with
\* no lock; in sequential use get(k) always returns content and etag that were
\* passed together to one store call (only interleaved store calls on one key
\* can leave a torn entry, pairing one call's content with the other's etag
\* and fetched_at).
C19_PairedInSequentialUse ==
    SequentialUse =>
        \A k \in Keys :
            LET entry == Get(contentFiles, metaFiles, k)
            IN  entry # NoEntry =>
                    \E s \in result.passed :
                        /\ s.key = k
                        /\ s.content = entry.content
                        /\ s.etag = entry.etag

\* ------------------------------------------------- what fetch_feed may write
\* A step in which fetch_feed returns through a full response or a recovered 304.
StoringReturn ==
    /\ FinishStep
    /\ result'.kind = "return"
    /\ result'.via \in {"full", "304"}

\* C21: fetch_feed modifies at most the cache entry of its own key and only
\* when it returns through a full response or a recovered 304; a fresh-hit
\* return and every call that raises leave every entry, the stale entry of its
\* own key and its fetched_at included, exactly as before, and no entry is
\* ever deleted.
C21_FrameOfFetchFeed ==
    [][\/ UNCHANGED <<contentFiles, metaFiles>>
       \/ /\ StoringReturn /\ call'.cache
          /\ \A k \in Keys :
                LET before == Get(contentFiles, metaFiles, k)
                    after == Get(contentFiles', metaFiles', k)
                IN  /\ before # NoEntry => after # NoEntry
                    /\ k # call'.key => after = before]_vars

\* A call has raised while a stale entry of its own key and the entry of
\* another key were in the cache.
C21_Witness ==
    /\ Finished /\ call.cache
    /\ result.kind \in {"FeedTooLargeError", "UnicodeDecodeError", "URLError"}
    /\ Get(contentFiles, metaFiles, call.key) # NoEntry
    /\ Get(contentFiles, metaFiles, call.key).fetched_at < now
    /\ call.key # OtherKey
    /\ Get(contentFiles, metaFiles, OtherKey) # NoEntry

====
